---------------------------- MODULE Spec2Model ----------------------------
(***************************************************************************)
(* A model of the collectd MongoDB plugin (src/mongodb.py): the three     *)
(* module-level metric maps, the MongoDB object's configuration, the      *)
(* version conditioning done by connect, the three publish operations and *)
(* the recursive matcher that turns (metric map, response document) pairs *)
(* into collectd submissions.                                             *)
(*                                                                         *)
(* Python values are modelled as tagged records:                          *)
(*   a dict          [t |-> "dict", m |-> function from keys to values]   *)
(*   a string        [t |-> "str",  s |-> the string]                     *)
(*   a number        [t |-> "num",  n |-> the number]                     *)
(*   a version text  [t |-> "ver",  chars |-> its characters]             *)
(* An optional string (None or a str) is <<>> or <<s>>.                   *)
(***************************************************************************)
EXTENDS Integers, Sequences, FiniteSets, TLC

VARIABLES
    SERVER_STATUS_METRICS,           \* module global, rebound contents in connect
    CONNECTION_POOL_STATUS_METRICS,  \* module global
    DBSTATS_METRICS,                 \* module global
    mongo_host, mongo_port, mongo_dbs, mongo_user, mongo_password,
    includeConnPoolMetrics, includeServerStatsMetrics, includeDbstatsMetrics,
    mongo_client,                    \* "unset" | "connected" | "disconnected"
    server,                          \* the MongoDB server the plugin talks to
    connects,                        \* number of connect calls that ran (capped)
    op,                              \* the last operation and its arguments
    raised,                          \* exception that left the last operation, "" if none
    calls,                           \* submit() calls made by the last operation
    matched,                         \* recursive_submit() root calls of the last operation
    attempted,                       \* steps the last operation entered
    args                             \* arguments of a call of the matcher on its own

vars == << SERVER_STATUS_METRICS, CONNECTION_POOL_STATUS_METRICS, DBSTATS_METRICS,
           mongo_host, mongo_port, mongo_dbs, mongo_user, mongo_password,
           includeConnPoolMetrics, includeServerStatsMetrics, includeDbstatsMetrics,
           mongo_client, server, connects, op, raised, calls, matched, attempted, args >>

globals == << SERVER_STATUS_METRICS, CONNECTION_POOL_STATUS_METRICS, DBSTATS_METRICS >>

self == << mongo_host, mongo_port, mongo_dbs, mongo_user, mongo_password,
           includeConnPoolMetrics, includeServerStatsMetrics, includeDbstatsMetrics >>

---------------------------------------------------------------------------
(* Bounds of the model *)

\* longest list of target databases a configuration names
MaxDbs == 2

\* most children of one configuration block
MaxChildren == 1

\* most connect calls that run version conditioning
MaxConnects == 2

\* most keys, over all levels, of a metric map or document handed to the matcher
MaxEntries == 3

---------------------------------------------------------------------------
(* Python values *)

None == << >>

Some(s) == << s >>

Dict(m) == [t |-> "dict", m |-> m]

Str(s) == [t |-> "str", s |-> s]

Num(n) == [t |-> "num", n |-> n]

Ver(chars) == [t |-> "ver", chars |-> chars]

EmptyMap == [k \in {} |-> None]

\* isinstance(x, types.DictType)
IsDict(x) == x.t = "dict"

\* d.has_key(k)
HasKey(d, k) == k \in DOMAIN d.m

\* d[k] = v
SetItem(d, k, v) == Dict([x \in (DOMAIN d.m) \cup {k} |-> IF x = k THEN v ELSE d.m[x]])

\* d.pop(k), the dict that is left
Popped(d, k) == Dict([x \in (DOMAIN d.m) \ {k} |-> d.m[x]])

\* truth value of an optional string: None and "" are false
Truthy(o) == o # None /\ o[1] # ""

\* copy.deepcopy: an equal value that shares nothing with its argument
deepcopy(x) == x

\* Dict literal with the same leaf for every key
Leaves(keys, kind) == Dict([k \in keys |-> Str(kind)])

---------------------------------------------------------------------------
(* The metric maps, mongodb.py lines 16-115 *)

CONNECTION_POOL_STATUS_METRICS_literal ==
    Dict([k \in {"createdByType", "totalAvailable", "totalCreated",
                 "numDBClientConnection", "numAScopedConnection"} |->
        CASE k = "createdByType" -> Leaves({"master", "set", "sync"}, "total_connections")
          [] k = "totalAvailable" -> Str("gauge")
          [] k = "totalCreated" -> Str("total_connections")
          [] k = "numDBClientConnection" -> Str("gauge")
          [] k = "numAScopedConnection" -> Str("gauge")])

DBSTATS_METRICS_literal ==
    Dict([k \in {"collections", "objects", "avgObjSize", "dataSize", "storageSize",
                 "numExtents", "indexes", "indexSize", "fileSize", "nsSizeMB"} |->
        IF k \in {"avgObjSize", "dataSize", "storageSize", "indexSize", "fileSize"}
        THEN Str("bytes") ELSE Str("gauge")])

LockTimes ==
    Dict([k \in {"timeLockedMicros", "timeAcquiringMicros"} |-> Leaves({"R", "W"}, "derive")])

SERVER_STATUS_METRICS_literal ==
    Dict([k \in {"backgroundFlushing", "connections", "cursors", "globalLock",
                 "indexCounters", "locks", "opcounters", "recordStats", "mem", "metrics"} |->
        CASE k = "backgroundFlushing" -> Leaves({"last_ms"}, "gauge")
          [] k = "connections" -> Leaves({"current", "available"}, "gauge")
          [] k = "cursors" ->
                Dict([c \in {"totalOpen", "timedout"} |->
                    IF c = "totalOpen" THEN Str("gauge") ELSE Str("derive")])
          [] k = "globalLock" ->
                Dict([c \in {"currentQueue", "activeClients"} |->
                    Leaves({"total", "readers", "writers"}, "gauge")])
          [] k = "indexCounters" -> Leaves({"accesses", "hits", "misses"}, "derive")
          [] k = "locks" -> Dict([c \in {"."} |-> LockTimes])
          [] k = "opcounters" ->
                Leaves({"insert", "query", "update", "delete", "getmore", "command"}, "derive")
          [] k = "recordStats" ->
                Leaves({"accessesNotInMemory", "pageFaultExceptionsThrown"}, "derive")
          [] k = "mem" ->
                Leaves({"bits", "resident", "virtual", "mapped", "mappedWithJournal"}, "gauge")
          [] k = "metrics" ->
                Dict([c \in {"document"} |->
                    Leaves({"deleted", "inserted", "returned", "updated"}, "derive")])])

---------------------------------------------------------------------------
(* submit and recursive_submit, mongodb.py lines 175-208 *)

\* What a call returns to its caller: the submit() calls it made and the
\* exception that left it ("" when it returned normally).
Outcome(cs, exc) == [calls |-> cs, raised |-> exc]

\* submit(instance, type, value, db): the "%s-%d" format raises TypeError for
\* a database name, which is a string; otherwise one Values is dispatched.
submit(port, instance, type, value, db) ==
    IF Truthy(db)
    THEN Outcome({}, "TypeError")
    ELSE Outcome({[plugin_instance |-> << port >>, type |-> type,
                   type_instance |-> instance, value |-> value, db |-> db]}, "")

\* lines 195-199: the instance name handed to a child
NextInstanceName_NoPrefix(instance_name, type_name) == Some(type_name)

NextInstanceName(instance_name, type_name) ==
    IF Truthy(instance_name)
    THEN Some(instance_name[1] \o "." \o type_name)
    ELSE Some(type_name)

\* line 201: the sub-instance handed to a child (the recursive call passes
\* three positional arguments, so the child's db is the default, None)
ChildDb(db) == None

\* line 206: "..." + instance_name raises TypeError when instance_name is None
MismatchReport(instance_name) ==
    IF instance_name = None THEN Outcome({}, "TypeError") ELSE Outcome({}, "")

RECURSIVE recursive_submit(_, _, _, _, _)
recursive_submit(port, type_tree, data_tree, instance_name, db) ==
    IF IsDict(type_tree) /\ IsDict(data_tree)
    THEN LET present == {k \in DOMAIN type_tree.m : HasKey(data_tree, k)}
             outs == {recursive_submit(port, type_tree.m[k], data_tree.m[k],
                                       NextInstanceName(instance_name, k), ChildDb(db)) :
                      k \in present}
             failed == {o \in outs : o.raised # ""}
         IN  \* a child can raise only where its instance name is None or its db
             \* is set, and neither is the case below the root: failed is empty
             Outcome(UNION {o.calls : o \in outs},
                     IF failed = {} THEN "" ELSE (CHOOSE o \in failed : TRUE).raised)
    ELSE IF IsDict(type_tree) \/ IsDict(data_tree)
    THEN MismatchReport(instance_name)
    ELSE submit(port, instance_name, type_tree.s, data_tree, db)

---------------------------------------------------------------------------
(* distutils.version.StrictVersion, used by connect at mongodb.py line 142 *)

Digit == {"0", "1", "2", "3", "4", "5", "6", "7", "8", "9"}

DigitValue(c) ==
    CASE c = "0" -> 0 [] c = "1" -> 1 [] c = "2" -> 2 [] c = "3" -> 3 [] c = "4" -> 4
      [] c = "5" -> 5 [] c = "6" -> 6 [] c = "7" -> 7 [] c = "8" -> 8 [] c = "9" -> 9

\* index just after the run of digits that starts at index i (\d+ is greedy)
RECURSIVE DigitsEnd(_, _)
DigitsEnd(s, i) == IF i <= Len(s) /\ s[i] \in Digit THEN DigitsEnd(s, i + 1) ELSE i

\* int() of the digits s[i .. j-1]
RECURSIVE IntOf(_, _, _)
IntOf(s, i, j) == IF j <= i THEN 0 ELSE 10 * IntOf(s, i, j - 1) + DigitValue(s[j - 1])

\* StrictVersion.parse: ^(\d+)\.(\d+)(\.(\d+))?([ab](\d+))?$ ; ok is FALSE
\* where parse raises ValueError
StrictVersion(s) ==
    LET e1 == DigitsEnd(s, 1)
        dot == e1 > 1 /\ e1 <= Len(s) /\ s[e1] = "."
        e2 == DigitsEnd(s, e1 + 1)
        hasPatch == e2 <= Len(s) /\ s[e2] = "." /\ DigitsEnd(s, e2 + 1) > e2 + 1
        e3 == IF hasPatch THEN DigitsEnd(s, e2 + 1) ELSE e2
        hasPre == e3 <= Len(s) /\ s[e3] \in {"a", "b"} /\ DigitsEnd(s, e3 + 1) > e3 + 1
        e4 == IF hasPre THEN DigitsEnd(s, e3 + 1) ELSE e3
    IN  IF dot /\ e2 > e1 + 1 /\ e4 = Len(s) + 1
        THEN [ok |-> TRUE,
              version |-> << IntOf(s, 1, e1), IntOf(s, e1 + 1, e2),
                             IF hasPatch THEN IntOf(s, e2 + 1, e3) ELSE 0 >>,
              prerelease |-> hasPre]
        ELSE [ok |-> FALSE, version |-> << 0, 0, 0 >>, prerelease |-> FALSE]

\* tuple comparison a > b, field by field
TupleGreater(a, b) ==
    \/ a[1] > b[1]
    \/ a[1] = b[1] /\ a[2] > b[2]
    \/ a[1] = b[1] /\ a[2] = b[2] /\ a[3] > b[3]

\* V(version) >= V("2.4.0"): a pre-release sorts before its final release
AtLeast_2_4(v) ==
    \/ TupleGreater(v.version, << 2, 4, 0 >>)
    \/ v.version = << 2, 4, 0 >> /\ ~v.prerelease

---------------------------------------------------------------------------
(* The environment: the server, its documents, and what can go wrong *)

V239 == << "2", ".", "3", ".", "9" >>
V240 == << "2", ".", "4", ".", "0" >>
V241 == << "2", ".", "4", ".", "1" >>
V220 == << "2", ".", "2", ".", "0" >>
V2100 == << "2", ".", "1", "0", ".", "0" >>
V24 == << "2", ".", "4" >>
V240b1 == << "2", ".", "4", ".", "0", "b", "1" >>
V240rc == << "2", ".", "4", ".", "0", "-", "r", "c", "1" >>
Vbad == << "x" >>

\* version strings a serverStatus document may carry; None: no version field
VersionTexts == {V239, V240, V241, V220, V2100, V24, V240b1, V240rc, Vbad}

DbNames == {"admin", "logs"}

NumDict(keys, n) == Dict([k \in keys |-> Num(n)])

\* serverStatus of a 2.2+ server: per-database lock sections, a field the
\* metric map does not list ("host"), the index counters in either layout
StatusWithLocks ==
    Dict([k \in {"host", "connections", "indexCounters", "locks"} |->
        CASE k = "host" -> Str("db1")
          [] k = "connections" -> Dict([c \in {"current", "available"} |->
                                    IF c = "current" THEN Num(3) ELSE Num(100)])
          [] k = "indexCounters" ->
                Dict([c \in {"accesses", "btree"} |->
                    IF c = "accesses" THEN Num(7) ELSE NumDict({"accesses", "hits"}, 5)])
          [] k = "locks" ->
                Dict([c \in {".", "admin"} |->
                    Dict([x \in {"timeLockedMicros"} |-> NumDict({"R", "W"}, 11)])])])

\* serverStatus of an older server: no lock section at all
StatusNoLocks ==
    Dict([k \in {"host", "connections"} |->
        IF k = "host" THEN Str("db1") ELSE NumDict({"current"}, 3)])

ServerStatusDocs == {StatusWithLocks, StatusNoLocks}

\* the document the serverStatus command returns from a server of this version
WithVersion(doc, version) ==
    IF version = None THEN doc ELSE SetItem(doc, "version", Ver(version[1]))

ConnPoolDocs ==
    {Dict([k \in {"hosts", "createdByType", "totalAvailable"} |->
        CASE k = "hosts" -> Dict([h \in {"db1:27017"} |-> NumDict({"available"}, 1)])
          [] k = "createdByType" -> NumDict({"master"}, 4)
          [] k = "totalAvailable" -> Num(2)])}

\* dbStats names the database it describes in its "db" field
DbStatsDoc(db_name) ==
    Dict([k \in {"db", "objects", "dataSize"} |->
        CASE k = "db" -> Str(db_name) [] k = "objects" -> Num(10) [] k = "dataSize" -> Num(20)])

NoFault == [cmd |-> "", db |-> "", kind |-> ""]

\* one call that raises during an operation: the command (for dbStats, of one
\* database) or the authenticate call that precedes it
Faults ==
    {NoFault}
    \cup [cmd : {"serverStatus", "connPoolStats"}, db : {""}, kind : {"fetch", "auth"}]
    \cup [cmd : {"dbStats"}, db : DbNames, kind : {"fetch", "auth"}]

---------------------------------------------------------------------------
(* MongoDB.__init__ and MongoDB.config, mongodb.py lines 121-172 *)

\* an inclusion filter: None, or the values of a configuration node
NoFilter == [t |-> "none"]

TupleOf(items) == [t |-> "tuple", items |-> items]

\* truth value of an inclusion filter
FilterSet(f) ==
    CASE f.t = "none" -> FALSE
      [] f.t = "tuple" -> f.items # << >>
      [] f.t = "dict" -> DOMAIN f.m # {}

Node(key, values) == [key |-> key, values |-> values]

\* children of a configuration block.  collectd hands a node's values over as
\* a tuple; a mapping is what the three publish operations call iterkeys() on.
TargetNodes ==
    {Node("Host", << "127.0.0.1" >>), Node("Port", << 27017 >>), Node("Verbose", << "true" >>)}
    \cup {Node("Databases", dbs) : dbs \in UNION {[1..n -> DbNames] : n \in 0..MaxDbs}}

CredentialNodes == {Node("User", << "monitor" >>), Node("Password", << "secret" >>)}

FilterNodes ==
    {Node("ConnectionPoolStatus", f) :
        f \in {TupleOf(<< "totalAvailable" >>),
               Dict([k \in {"totalAvailable", "hosts"} |-> Num(1)]),
               Dict([k \in {"totalAvailable", "createdByType", "bogus"} |-> Num(1)])}}
    \cup {Node("ServerStats", f) :
            f \in {TupleOf(<< >>),
                   Dict([k \in {"connections", "locks"} |-> Num(1)]),
                   Dict([k \in {"connections", "mem"} |-> Num(1)]),
                   Dict([k \in {"locks", "host"} |-> Num(1)])}}
    \cup {Node("DBStats", f) :
            f \in {Dict([k \in {"objects", "db"} |-> Num(1)]),
                   Dict([k \in {"objects", "indexes"} |-> Num(1)])}}

\* the blocks of at most MaxChildren children drawn from nodes
ConfigBlocks(nodes) == UNION {[1..n -> nodes] : n \in 0..MaxChildren}

SelfNow ==
    [mongo_host |-> mongo_host, mongo_port |-> mongo_port, mongo_dbs |-> mongo_dbs,
     mongo_user |-> mongo_user, mongo_password |-> mongo_password,
     includeConnPoolMetrics |-> includeConnPoolMetrics,
     includeServerStatsMetrics |-> includeServerStatsMetrics,
     includeDbstatsMetrics |-> includeDbstatsMetrics]

\* __init__
SelfInit ==
    [mongo_host |-> "127.0.0.1", mongo_port |-> 27017, mongo_dbs |-> << "admin" >>,
     mongo_user |-> None, mongo_password |-> None,
     includeConnPoolMetrics |-> NoFilter,
     includeServerStatsMetrics |-> NoFilter,
     includeDbstatsMetrics |-> NoFilter]

\* one pass of the loop body of config
ConfigNode(s, node) ==
    CASE node.key = "Port" -> [s EXCEPT !.mongo_port = node.values[1]]
      [] node.key = "Host" -> [s EXCEPT !.mongo_host = node.values[1]]
      [] node.key = "User" -> [s EXCEPT !.mongo_user = Some(node.values[1])]
      [] node.key = "Password" -> [s EXCEPT !.mongo_password = Some(node.values[1])]
      [] node.key = "Databases" -> [s EXCEPT !.mongo_dbs = node.values]
      [] node.key = "ConnectionPoolStatus" -> [s EXCEPT !.includeConnPoolMetrics = node.values]
      [] node.key = "ServerStats" -> [s EXCEPT !.includeServerStatsMetrics = node.values]
      [] node.key = "DBStats" -> [s EXCEPT !.includeDbstatsMetrics = node.values]
      [] OTHER -> s   \* collectd.warning, nothing is set

RECURSIVE ConfigChildren(_, _)
ConfigChildren(s, children) ==
    IF children = << >> THEN s
    ELSE ConfigChildren(ConfigNode(s, Head(children)), Tail(children))

SetSelf(s) ==
    /\ mongo_host' = s.mongo_host
    /\ mongo_port' = s.mongo_port
    /\ mongo_dbs' = s.mongo_dbs
    /\ mongo_user' = s.mongo_user
    /\ mongo_password' = s.mongo_password
    /\ includeConnPoolMetrics' = s.includeConnPoolMetrics
    /\ includeServerStatsMetrics' = s.includeServerStatsMetrics
    /\ includeDbstatsMetrics' = s.includeDbstatsMetrics

Op(name, fault) == [name |-> name, fault |-> fault]

\* what an operation leaves behind for the observer
Report(name, fault, exc, cs, m, att) ==
    /\ op' = Op(name, fault)
    /\ raised' = exc
    /\ calls' = cs
    /\ matched' = m
    /\ attempted' = att

\* collectd hands the plugin its configuration block before it calls init
config(obj) ==
    /\ op.name \in {"__init__", "config"}
    /\ SetSelf(ConfigChildren(SelfNow, obj))
    /\ Report("config", NoFault, "", {}, << >>, {})
    /\ UNCHANGED << globals, mongo_client, server, connects, args >>

---------------------------------------------------------------------------
(* MongoDB.connect and MongoDB.disconnect, mongodb.py lines 134-150 *)

ConnectFaults ==
    {NoFault} \cup [cmd : {"Connection", "serverStatus"}, db : {""}, kind : {"fetch"}]

\* lines 144-145: the index counters move one level down, under "btree"
NestIndexCounters(ssm) ==
    SetItem(Popped(ssm, "indexCounters"), "indexCounters",
            Dict([k \in {"btree"} |-> ssm.m["indexCounters"]]))

\* lines 140-145, once the Connection object exists: the exception raised, if
\* any, and the contents of SERVER_STATUS_METRICS afterwards
VersionConditioning(ssm, fault) ==
    LET server_status == WithVersion(StatusWithLocks, server.version)
    IN  IF mongo_dbs = << >> THEN [raised |-> "IndexError", ssm |-> ssm]
        ELSE IF fault.cmd = "serverStatus" THEN [raised |-> "OperationFailure", ssm |-> ssm]
        ELSE IF ~HasKey(server_status, "version") THEN [raised |-> "KeyError", ssm |-> ssm]
        ELSE LET v == StrictVersion(server_status.m["version"].chars)
             IN  IF ~v.ok THEN [raised |-> "ValueError", ssm |-> ssm]
                 ELSE IF ~AtLeast_2_4(v) THEN [raised |-> "", ssm |-> NestIndexCounters(ssm)]
                 ELSE [raised |-> "", ssm |-> ssm]

connect(fault) ==
    /\ connects < MaxConnects
    /\ IF fault.cmd = "Connection"
       THEN /\ Report("connect", fault, "ConnectionFailure", {}, << >>, {})
            /\ UNCHANGED << globals, mongo_client, connects >>
       ELSE LET r == VersionConditioning(SERVER_STATUS_METRICS, fault)
            IN  /\ mongo_client' = "connected"
                /\ SERVER_STATUS_METRICS' = r.ssm
                /\ connects' = IF r.raised = "" THEN connects + 1 ELSE connects
                /\ Report("connect", fault, r.raised, {}, << >>, {})
                /\ UNCHANGED << CONNECTION_POOL_STATUS_METRICS, DBSTATS_METRICS >>
    /\ UNCHANGED << self, server, args >>

disconnect ==
    /\ IF mongo_client = "unset"
       THEN /\ Report("disconnect", NoFault, "AttributeError", {}, << >>, {})
            /\ UNCHANGED mongo_client
       ELSE /\ Report("disconnect", NoFault, "", {}, << >>, {})
            /\ mongo_client' = "disconnected"
    /\ UNCHANGED << globals, self, server, connects, args >>

---------------------------------------------------------------------------
(* The three publish operations, mongodb.py lines 211-271 *)

\* self.mongo_client[name], authenticate and command: the exception raised
\* before a response document is in hand, "" if none
Fetch(cmd, db_name, fault) ==
    IF mongo_client = "unset" THEN "AttributeError"
    ELSE IF fault.cmd = cmd /\ fault.db = db_name /\ fault.kind = "auth"
            /\ Truthy(mongo_user) /\ Truthy(mongo_password)
    THEN "OperationFailure"
    ELSE IF fault.cmd = cmd /\ fault.db = db_name /\ fault.kind = "fetch"
    THEN "OperationFailure"
    ELSE ""

\* metrics_to_collect: the dict it names and whether that dict is the module
\* global itself ("global") or an object of the call ("local")
Bound(ref, tree) == [raised |-> "", ref |-> ref, tree |-> tree]

Unbound(exc) == [raised |-> exc, ref |-> "local", tree |-> Dict(EmptyMap)]

\* metrics_to_collect = BASE (lines 224, 242)
AliasOf(base) == Bound("global", base)

\* metrics_to_collect = deepcopy(SERVER_STATUS_METRICS) (line 260)
CopyOf(base) == Bound("local", deepcopy(base))

\* the filtered branch (lines 220-222, 238-240, 256-258): iterkeys() exists on
\* a mapping only; BASE[key] raises KeyError for a key the map does not list
Selected(base, include, response) ==
    IF include.t # "dict" THEN Unbound("AttributeError")
    ELSE LET wanted == {k \in DOMAIN include.m : HasKey(response, k)}
         IN  IF wanted \ DOMAIN base.m # {} THEN Unbound("KeyError")
             ELSE Bound("local", Dict([k \in wanted |-> deepcopy(base.m[k])]))

Done(ssm, exc, cs, m, att) ==
    [ssm |-> ssm, raised |-> exc, calls |-> cs, matched |-> m, attempted |-> att]

\* one root call of recursive_submit, as the observer records it
Matched(type_tree, data_tree, db, out) ==
    [type_tree |-> type_tree, data_tree |-> data_tree, db |-> db,
     calls |-> out.calls, raised |-> out.raised]

Step(cmd, db_name) == [cmd |-> cmd, db |-> db_name]

publish_connection_pool_metrics(conn_pool_stats, fault) ==
    LET att == {Step("connPoolStats", "")}
        ssm == SERVER_STATUS_METRICS
        pre == IF mongo_client # "unset" /\ mongo_dbs = << >> THEN "IndexError"
               ELSE Fetch("connPoolStats", "", fault)
        b == IF FilterSet(includeConnPoolMetrics)
             THEN Selected(CONNECTION_POOL_STATUS_METRICS, includeConnPoolMetrics,
                           conn_pool_stats)
             ELSE AliasOf(CONNECTION_POOL_STATUS_METRICS)
        out == recursive_submit(mongo_port, b.tree, conn_pool_stats, None, None)
    IN  IF pre # "" THEN Done(ssm, pre, {}, << >>, att)
        ELSE IF b.raised # "" THEN Done(ssm, b.raised, {}, << >>, att)
        ELSE Done(ssm, out.raised, out.calls,
                  << Matched(b.tree, conn_pool_stats, None, out) >>, att)

\* the loop of publish_dbstats over the databases still to visit
RECURSIVE dbstats_loop(_, _, _)
dbstats_loop(dbs, fault, acc) ==
    IF dbs = << >> THEN acc
    ELSE LET db_name == Head(dbs)
             att == acc.attempted \cup {Step("dbStats", db_name)}
             pre == Fetch("dbStats", db_name, fault)
             dbstats == DbStatsDoc(db_name)
             b == IF FilterSet(includeDbstatsMetrics)
                  THEN Selected(DBSTATS_METRICS, includeDbstatsMetrics, dbstats)
                  ELSE AliasOf(DBSTATS_METRICS)
             out == recursive_submit(mongo_port, b.tree, dbstats, None, Some(db_name))
         IN  IF pre # "" THEN Done(acc.ssm, pre, acc.calls, acc.matched, att)
             ELSE IF b.raised # "" THEN Done(acc.ssm, b.raised, acc.calls, acc.matched, att)
             ELSE IF out.raised # ""
             THEN Done(acc.ssm, out.raised, acc.calls \cup out.calls,
                       Append(acc.matched, Matched(b.tree, dbstats, Some(db_name), out)), att)
             ELSE dbstats_loop(Tail(dbs), fault,
                      Done(acc.ssm, "", acc.calls \cup out.calls,
                           Append(acc.matched, Matched(b.tree, dbstats, Some(db_name), out)),
                           att))

publish_dbstats(fault) ==
    dbstats_loop(mongo_dbs, fault, Done(SERVER_STATUS_METRICS, "", {}, << >>, {}))

\* metrics_to_collect["locks"] = locks, written to the dict metrics_to_collect names
WithLocks(store, ref, locks) == [store EXCEPT ![ref] = SetItem(store[ref], "locks", locks)]

\* lines 262-265: rename the "." lock to "GLOBAL"
RenameGlobalLock_Keep(store, ref) ==
    LET locks == store[ref].m["locks"]
    IN  IF HasKey(locks, ".")
        THEN WithLocks(store, ref, SetItem(locks, "GLOBAL", locks.m["."]))
        ELSE store

RenameGlobalLock(store, ref) ==
    LET locks == store[ref].m["locks"]
    IN  IF HasKey(locks, ".")
        THEN WithLocks(store, ref, SetItem(Popped(locks, "."), "GLOBAL", locks.m["."]))
        ELSE store

\* lines 268-269: one branch per database, copied from the module global
RECURSIVE InjectLocks(_, _, _)
InjectLocks(store, ref, dbs) ==
    IF dbs = << >> THEN [raised |-> "", store |-> store]
    ELSE IF ~HasKey(store.global.m["locks"], ".")
    THEN [raised |-> "KeyError", store |-> store]
    ELSE InjectLocks(WithLocks(store, ref,
                         SetItem(store[ref].m["locks"], Head(dbs),
                                 deepcopy(store.global.m["locks"].m["."]))),
                     ref, Tail(dbs))

\* line 260
ServerStatusUnfiltered_Alias(base) == AliasOf(base)

ServerStatusUnfiltered(base) == CopyOf(base)

publish_server_status(ssm, server_status, fault) ==
    LET att == {Step("serverStatus", "")}
        pre == IF mongo_client # "unset" /\ mongo_dbs = << >> THEN "IndexError"
               ELSE Fetch("serverStatus", "", fault)
        b == IF FilterSet(includeServerStatsMetrics)
             THEN Selected(ssm, includeServerStatsMetrics, server_status)
             ELSE ServerStatusUnfiltered(ssm)
        store0 == [global |-> ssm, local |-> b.tree]
    IN  IF pre # "" THEN Done(ssm, pre, {}, << >>, att)
        ELSE IF b.raised # "" THEN Done(ssm, b.raised, {}, << >>, att)
        ELSE IF ~HasKey(store0[b.ref], "locks") THEN Done(ssm, "KeyError", {}, << >>, att)
        ELSE LET r == InjectLocks(RenameGlobalLock(store0, b.ref), b.ref, mongo_dbs)
                 metrics_to_collect == r.store[b.ref]
                 out == recursive_submit(mongo_port, metrics_to_collect, server_status,
                                         None, None)
             IN  IF r.raised # "" THEN Done(r.store.global, r.raised, {}, << >>, att)
                 ELSE Done(r.store.global, out.raised, out.calls,
                           << Matched(metrics_to_collect, server_status, None, out) >>, att)

\* lines 274-277: the three operations in order; an exception leaves at once
publish_data(server_status, conn_pool_stats, fault) ==
    LET r1 == publish_server_status(SERVER_STATUS_METRICS, server_status, fault)
        r2 == publish_connection_pool_metrics(conn_pool_stats, fault)
        r3 == publish_dbstats(fault)
    IN  IF r1.raised # "" THEN r1
        ELSE IF r2.raised # ""
        THEN Done(r1.ssm, r2.raised, r1.calls \cup r2.calls, r1.matched \o r2.matched,
                  r1.attempted \cup r2.attempted)
        ELSE Done(r1.ssm, r3.raised, r1.calls \cup r2.calls \cup r3.calls,
                  r1.matched \o r2.matched \o r3.matched,
                  r1.attempted \cup r2.attempted \cup r3.attempted)

---------------------------------------------------------------------------
(* The plugin in its host (lines 280-284): collectd calls config, then connect
   (init), publish_data (read) on every interval and disconnect (shutdown).
   The publish operations are also called on their own. *)

SelfIs(s) ==
    /\ mongo_host = s.mongo_host
    /\ mongo_port = s.mongo_port
    /\ mongo_dbs = s.mongo_dbs
    /\ mongo_user = s.mongo_user
    /\ mongo_password = s.mongo_password
    /\ includeConnPoolMetrics = s.includeConnPoolMetrics
    /\ includeServerStatsMetrics = s.includeServerStatsMetrics
    /\ includeDbstatsMetrics = s.includeDbstatsMetrics

NoArgs == [type_tree |-> Dict(EmptyMap), data_tree |-> Dict(EmptyMap), db |-> None]

InitWith(versions) ==
    /\ SERVER_STATUS_METRICS = SERVER_STATUS_METRICS_literal
    /\ CONNECTION_POOL_STATUS_METRICS = CONNECTION_POOL_STATUS_METRICS_literal
    /\ DBSTATS_METRICS = DBSTATS_METRICS_literal
    /\ SelfIs(SelfInit)
    /\ mongo_client = "unset"
    /\ server \in [version : versions]
    /\ connects = 0
    /\ op = Op("__init__", NoFault)
    /\ raised = ""
    /\ calls = {}
    /\ matched = << >>
    /\ attempted = {}
    /\ args = NoArgs

\* an operation that leaves everything but the module globals' contents alone
Publish(name, fault, r) ==
    /\ SERVER_STATUS_METRICS' = r.ssm
    /\ Report(name, fault, r.raised, r.calls, r.matched, r.attempted)
    /\ UNCHANGED << CONNECTION_POOL_STATUS_METRICS, DBSTATS_METRICS, self,
                    mongo_client, server, connects, args >>

\* the faults of the given kinds that can hit the given command
FaultsOf(cmds, kinds) == {f \in Faults : f = NoFault \/ (f.cmd \in cmds /\ f.kind \in kinds)}

Config(nodes) == \E obj \in ConfigBlocks(nodes) : config(obj)

Connect == \E fault \in ConnectFaults : connect(fault)

Disconnect == disconnect

PublishServerStatus(kinds) ==
    \E doc \in ServerStatusDocs, fault \in FaultsOf({"serverStatus"}, kinds) :
        Publish("publish_server_status", fault,
                publish_server_status(SERVER_STATUS_METRICS,
                                      WithVersion(doc, server.version), fault))

PublishConnectionPoolMetrics(kinds) ==
    \E doc \in ConnPoolDocs, fault \in FaultsOf({"connPoolStats"}, kinds) :
        Publish("publish_connection_pool_metrics", fault,
                publish_connection_pool_metrics(doc, fault))

PublishDbstats(kinds) ==
    \E fault \in FaultsOf({"dbStats"}, kinds) :
        Publish("publish_dbstats", fault, publish_dbstats(fault))

PublishData(kinds) ==
    \E sdoc \in ServerStatusDocs, cdoc \in ConnPoolDocs,
       fault \in FaultsOf({"serverStatus", "connPoolStats", "dbStats"}, kinds) :
        Publish("publish_data", fault,
                publish_data(WithVersion(sdoc, server.version), cdoc, fault))

(* Schema resolution: every inclusion filter and target list, a reachable
   server of either index-counter layout. *)
ResolveInit == InitWith({Some(V220), Some(V241)})

ResolveNext ==
    \/ Config(TargetNodes \cup FilterNodes)
    \/ Connect
    \/ Disconnect
    \/ PublishServerStatus({"fetch"})
    \/ PublishConnectionPoolMetrics({"fetch"})
    \/ PublishDbstats({"fetch"})

SpecResolve == ResolveInit /\ [][ResolveNext]_vars

(* The polling cycle: credentials, target lists, and a fetch or an
   authentication that fails at any one step. *)
PollInit == InitWith({Some(V241)})

PollNext ==
    \/ Config(TargetNodes \cup CredentialNodes)
    \/ Connect
    \/ Disconnect
    \/ PublishServerStatus({"fetch", "auth"})
    \/ PublishConnectionPoolMetrics({"fetch", "auth"})
    \/ PublishDbstats({"fetch", "auth"})
    \/ PublishData({"fetch", "auth"})

SpecPoll == PollInit /\ [][PollNext]_vars

(* Version conditioning: servers of every version text, and of none. *)
ConnectInit == InitWith({None} \cup {Some(v) : v \in VersionTexts})

ConnectNext ==
    \/ Config(TargetNodes)
    \/ Connect
    \/ Disconnect
    \/ PublishServerStatus({"fetch"})

SpecConnect == ConnectInit /\ [][ConnectNext]_vars

(* The matcher on its own: every metric map and every document of at most
   MaxEntries keys, with and without a sub-instance. *)

MatchKeys == {"a", "b"}

RECURSIVE Entries(_)
RECURSIVE EntriesOf(_, _)
\* number of keys of a value, over all its levels
Entries(x) == IF IsDict(x) THEN EntriesOf(x, DOMAIN x.m) ELSE 0

EntriesOf(x, keys) ==
    IF keys = {} THEN 0
    ELSE LET k == CHOOSE c \in keys : TRUE
         IN  1 + Entries(x.m[k]) + EntriesOf(x, keys \ {k})

\* the values with at most n keys whose scalars are drawn from leaves
RECURSIVE Trees(_, _)
Trees(leaves, n) ==
    leaves \cup {Dict(EmptyMap)} \cup
    UNION {{Dict(f) : f \in {g \in [S -> Trees(leaves, n - Cardinality(S))] :
                                Entries(Dict(g)) <= n}} :
           S \in {T \in SUBSET MatchKeys : T # {} /\ Cardinality(T) <= n}}

\* a metric map is a dict at its root (lines 16, 30, 44)
MatchSchemas == {x \in Trees({Str("gauge"), Str("derive")}, MaxEntries) : IsDict(x)}

MatchDocuments == Trees({Num(1), Num(5)}, MaxEntries)

MatchArgs == [type_tree : MatchSchemas, data_tree : MatchDocuments,
              db : {None, Some("admin")}]

\* the plugin as constructed, about to call the matcher with some arguments
MatchInit ==
    /\ SERVER_STATUS_METRICS = SERVER_STATUS_METRICS_literal
    /\ CONNECTION_POOL_STATUS_METRICS = CONNECTION_POOL_STATUS_METRICS_literal
    /\ DBSTATS_METRICS = DBSTATS_METRICS_literal
    /\ SelfIs(SelfInit)
    /\ mongo_client = "unset"
    /\ server = [version |-> Some(V241)]
    /\ connects = 0
    /\ op = Op("__init__", NoFault)
    /\ raised = ""
    /\ calls = {}
    /\ matched = << >>
    /\ attempted = {}
    /\ args \in MatchArgs

RecursiveSubmit ==
    /\ op.name = "__init__"
    /\ LET out == recursive_submit(mongo_port, args.type_tree, args.data_tree, None, args.db)
       IN  Report("recursive_submit", NoFault, out.raised, out.calls,
                  << Matched(args.type_tree, args.data_tree, args.db, out) >>, {})
    /\ UNCHANGED << globals, self, mongo_client, server, connects, args >>

MatchNext == RecursiveSubmit

SpecMatch == MatchInit /\ [][MatchNext]_vars

---------------------------------------------------------------------------
(* What the operations are expected to do *)

PublishOps == {"publish_server_status", "publish_connection_pool_metrics", "publish_dbstats"}

Range(seq) == {seq[i] : i \in DOMAIN seq}

\* the last operation got every response document it asked for
Fetched == mongo_client # "unset" /\ mongo_dbs # << >> /\ op.fault = NoFault

\* key paths from the root of a metric map to its leaves
RECURSIVE LeafPaths(_)
LeafPaths(t) ==
    IF IsDict(t)
    THEN UNION {{<< k >> \o p : p \in LeafPaths(t.m[k])} : k \in DOMAIN t.m}
    ELSE {<< >>}

\* the value at a key path, through dicts only: << v >>, or << >> if there is none
RECURSIVE At(_, _)
At(x, path) ==
    IF path = << >> THEN << x >>
    ELSE IF IsDict(x) /\ HasKey(x, Head(path)) THEN At(x.m[Head(path)], Tail(path))
    ELSE << >>

RECURSIVE DotJoin(_)
DotJoin(path) ==
    IF Len(path) = 1 THEN path[1] ELSE path[1] \o "." \o DotJoin(Tail(path))

\* one record per leaf of the map whose key path leads to a scalar of the document
ExpectedRecords(type_tree, data_tree) ==
    {[type_instance |-> Some(DotJoin(p)), type |-> At(type_tree, p)[1].s,
      value |-> At(data_tree, p)[1]] :
        p \in {q \in LeafPaths(type_tree) :
                  q # << >> /\ At(data_tree, q) # << >> /\ ~IsDict(At(data_tree, q)[1])}}

RecordsOf(cs) ==
    {[type_instance |-> c.type_instance, type |-> c.type, value |-> c.value] : c \in cs}

\* a dict of the map meets a scalar of the document, or a leaf meets a dict
RECURSIVE Mismatched(_, _)
Mismatched(type_tree, data_tree) ==
    \/ IsDict(type_tree) # IsDict(data_tree)
    \/ /\ IsDict(type_tree)
       /\ IsDict(data_tree)
       /\ \E k \in DOMAIN type_tree.m :
            HasKey(data_tree, k) /\ Mismatched(type_tree.m[k], data_tree.m[k])

\* the filter keys of an inclusion filter
FilterKeys(f) ==
    CASE f.t = "none" -> {}
      [] f.t = "tuple" -> Range(f.items)
      [] f.t = "dict" -> DOMAIN f.m

\* the inclusion filter and the module global an operation works from
FilterFor(name) ==
    CASE name = "publish_server_status" -> includeServerStatsMetrics
      [] name = "publish_connection_pool_metrics" -> includeConnPoolMetrics
      [] name = "publish_dbstats" -> includeDbstatsMetrics

BaseFor(name) ==
    CASE name = "publish_server_status" -> SERVER_STATUS_METRICS
      [] name = "publish_connection_pool_metrics" -> CONNECTION_POOL_STATUS_METRICS
      [] name = "publish_dbstats" -> DBSTATS_METRICS

IndexLeaves == SERVER_STATUS_METRICS_literal.m["indexCounters"]

Placeholder == SERVER_STATUS_METRICS_literal.m["locks"].m["."]

\* the version text the server reports parses as major.minor[.patch]
VersionReadable == server.version # None /\ StrictVersion(server.version[1]).ok

---------------------------------------------------------------------------
(* C1: in a polling cycle whose documents the plugin can ask for, every step
   is entered: server status, connection pool status, and the statistics of
   every target database, whichever fetch or authentication raised. *)
C1_StepsIsolated ==
    (op.name = "publish_data" /\ mongo_client # "unset" /\ mongo_dbs # << >>)
        => attempted = {Step("serverStatus", ""), Step("connPoolStats", "")}
                       \cup {Step("dbStats", d) : d \in Range(mongo_dbs)}

(* C2: every submit call made for the statistics document of a target
   database receives that database as db, and no two different databases'
   records share (plugin instance, type, type instance). *)
C2_DbstatsCarryDatabase ==
    \A i \in DOMAIN matched :
        matched[i].db # None =>
            /\ \A c \in matched[i].calls : c.db = matched[i].db
            /\ \A j \in DOMAIN matched :
                 (matched[j].db # None /\ matched[j].db # matched[i].db) =>
                    \A c \in matched[i].calls, e \in matched[j].calls :
                        << c.plugin_instance, c.type, c.type_instance >>
                            # << e.plugin_instance, e.type, e.type_instance >>

(* C3: once connect has run against a server whose version is readable, the
   index counters sit directly under indexCounters for 2.4.0 and above and
   exactly one level deeper, under btree, below 2.4.0, however often connect
   ran. *)
C3_IndexCountersPlacedByVersion ==
    (connects >= 1 /\ VersionReadable) =>
        SERVER_STATUS_METRICS.m["indexCounters"] =
            IF AtLeast_2_4(StrictVersion(server.version[1]))
            THEN IndexLeaves
            ELSE Dict([k \in {"btree"} |-> IndexLeaves])

(* C4: when a publish operation has its response documents and its filter, if
   any, names root keys of the base map only, resolution completes, and the
   root keys of every metric map handed to the matcher are within the base
   map's root keys and the filter when a filter is set, and are the base map's
   root keys when none is. *)
C4_RootKeysWithinFilter ==
    (/\ op.name \in PublishOps
     /\ Fetched
     /\ FilterFor(op.name).t \in {"none", "dict"}
     /\ FilterKeys(FilterFor(op.name)) \subseteq DOMAIN BaseFor(op.name).m) =>
        /\ raised = ""
        /\ matched # << >>
        /\ \A i \in DOMAIN matched :
             LET keys == DOMAIN matched[i].type_tree.m
                 base == DOMAIN BaseFor(op.name).m
             IN  IF FilterSet(FilterFor(op.name))
                 THEN keys \subseteq base \cap FilterKeys(FilterFor(op.name))
                 ELSE keys = base

(* C5: a filter that names a key the base map does not list never makes a
   publish operation raise: the operation completes and hands the matcher the
   recognised filter keys the response holds. *)
C5_UnknownFilterKeysIgnored ==
    (/\ op.name \in PublishOps
     /\ Fetched
     /\ FilterFor(op.name).t = "dict"
     /\ FilterKeys(FilterFor(op.name)) \ DOMAIN BaseFor(op.name).m # {}
     /\ (op.name = "publish_server_status" => "locks" \in FilterKeys(FilterFor(op.name))))
        => /\ raised = ""
           /\ matched # << >>
           /\ \A i \in DOMAIN matched :
                DOMAIN matched[i].type_tree.m =
                    {k \in FilterKeys(FilterFor(op.name)) \cap DOMAIN BaseFor(op.name).m :
                        HasKey(matched[i].data_tree, k)}

(* C6: connect against a reachable server whose version is missing or
   malformed returns normally and leaves the index counters at the legacy
   place, one level down under btree. *)
C6_VersionDetectionNeverFails ==
    (op.name = "connect" /\ op.fault = NoFault /\ mongo_dbs # << >> /\ ~VersionReadable)
        => /\ raised = ""
           /\ SERVER_STATUS_METRICS.m["indexCounters"] = Dict([k \in {"btree"} |-> IndexLeaves])

(* C7: where a dict of the metric map meets a scalar of the document or a
   leaf meets a dict, at the root or below, the matcher returns normally and
   submits exactly the records of the subtrees that do match. *)
C7_MismatchContained ==
    \A i \in DOMAIN matched :
        (op.name = "recursive_submit" /\ Mismatched(matched[i].type_tree, matched[i].data_tree))
            => /\ matched[i].raised = ""
               /\ RecordsOf(matched[i].calls)
                    = ExpectedRecords(matched[i].type_tree, matched[i].data_tree)

(* C8: the lock branch of the metric map publish_server_status hands to the
   matcher has exactly the keys GLOBAL and the target databases, none of them
   the placeholder ".", each holding the placeholder's sub-tree, and the
   module global still holds the placeholder. *)
C8_LockBranchPerDatabase ==
    \A i \in DOMAIN matched :
        op.name = "publish_server_status" =>
            LET locks == matched[i].type_tree.m["locks"]
            IN  /\ DOMAIN locks.m = {"GLOBAL"} \cup Range(mongo_dbs)
                /\ "." \notin DOMAIN locks.m
                /\ \A k \in DOMAIN locks.m : locks.m[k] = Placeholder
                /\ SERVER_STATUS_METRICS.m["locks"] = Dict([k \in {"."} |-> Placeholder])

C8_Witness ==
    /\ op.name = "publish_server_status"
    /\ matched # << >>
    /\ mongo_dbs = << "admin", "logs" >>
    /\ DOMAIN matched[1].type_tree.m["locks"].m = {"GLOBAL", "admin", "logs"}
    /\ FilterSet(includeServerStatsMetrics)

(* C9: the matcher submits exactly one record per leaf of the metric map
   whose key path leads, through dicts of the document, to a scalar: named by
   the dot-joined key path, typed by the leaf, valued by the scalar. *)
C9_RecordsAreSchemaLeaves ==
    \A i \in DOMAIN matched :
        op.name = "recursive_submit" =>
            RecordsOf(calls) = ExpectedRecords(matched[i].type_tree, matched[i].data_tree)

C9_Witness ==
    /\ op.name = "recursive_submit"
    /\ \E c \in calls : c.type_instance = Some("a.b")
    /\ Cardinality(LeafPaths(matched[1].type_tree)) > Cardinality(calls)
    /\ \E k \in DOMAIN matched[1].data_tree.m : ~HasKey(matched[1].type_tree, k)

(* C10: a publish operation leaves the three module-level metric maps as
   they were, and the lock branch of the server-status map holds the
   placeholder "." alone. *)
C10_PublishKeepsBaseSchemas ==
    [][op'.name \in PublishOps =>
        /\ SERVER_STATUS_METRICS' = SERVER_STATUS_METRICS
        /\ CONNECTION_POOL_STATUS_METRICS' = CONNECTION_POOL_STATUS_METRICS
        /\ DBSTATS_METRICS' = DBSTATS_METRICS
        /\ DOMAIN SERVER_STATUS_METRICS'.m = DOMAIN SERVER_STATUS_METRICS_literal.m
        /\ DOMAIN SERVER_STATUS_METRICS'.m["locks"].m = {"."}]_vars

C10_Witness ==
    /\ op.name = "publish_server_status"
    /\ raised = ""
    /\ matched # << >>
    /\ ~FilterSet(includeServerStatsMetrics)
    /\ "GLOBAL" \in DOMAIN matched[1].type_tree.m["locks"].m
    /\ DOMAIN SERVER_STATUS_METRICS.m["locks"].m = {"."}

====
